---- MODULE Spec2Model ----
(***************************************************************************)
(* State-machine model of sora::SoraSignaling (src/src/sora_signaling.cpp).*)
(*                                                                         *)
(* Threads that run a step:                                                *)
(*   "app"    the caller of the public API (Connect, Close, Release)       *)
(*   "ioc"    completion handlers of the Websocket (OnConnect, OnRead,     *)
(*            OnClose), bound with shared_from_this()                      *)
(*   "webrtc" observer callbacks of the RTCConnection (lines 297-311)      *)
(*   "sys"    tasks submitted by boost::asio::post(handler) at line 302:   *)
(*            no executor is given, so the handler's associated executor   *)
(*            is used; neither a pointer to member nor bind_front_handler  *)
(*            has one, which leaves asio's default, the system_executor    *)
(*            thread pool, where tasks run in no particular order          *)
(*   "conn"   completion callbacks of SetOffer / CreateAnswer / GetStats,  *)
(*            invoked by the RTCConnection                                 *)
(***************************************************************************)
EXTENDS Integers, Sequences, FiniteSets

\* Bounds of the exploration.
\* Inputs from outside the client that one behaviour takes, all kinds together:
\* Websockets constructed by Connect(), read completions delivered,
\* connectivity-state events and local candidates raised, Close() calls.
MaxInput == 4

VARIABLES
  config_,        \* [scheme]: what URLParts::Parse yields for config_.signaling_url
  on_notify_,     \* TRUE iff a notify callback is registered
  connected_,     \* control channel connected flag
  rtc_state_,     \* connectivity state field
  connection_,    \* 0 = nullptr, n > 0 = the n-th RTCConnection created
  ws_,            \* 0 = nullptr, n > 0 = the n-th Websocket constructed
  opens,          \* number of pending OnConnect completion handlers
  reads,          \* number of pending OnRead completion handlers
  closes,         \* number of pending OnClose completion handlers
  setOffers,      \* pending SetOffer requests
  createAnswers,  \* pending CreateAnswer requests
  statsReqs,      \* pending GetStats requests
  posted,         \* tasks submitted by boost::asio::post, not yet run
  nextSeq,        \* number of state-change events raised so far
  lastRaised,     \* the state of the last event raised
  out,            \* messages handed to ws_->WriteText, in call order
  notifyLog,      \* texts handed to on_notify_, in call order
  nConn,          \* RTCConnections created so far
  nRead,          \* read completions delivered so far
  nInput,         \* inputs taken so far (see MaxInput)
  nClose,         \* Close() calls so far
  crashed,        \* the process has terminated
  last            \* the step that led to this state

vars == <<config_, on_notify_, connected_, rtc_state_, connection_, ws_, opens,
          reads, closes, setOffers, createAnswers, statsReqs, posted, nextSeq,
          lastRaised, out, notifyLog, nConn, nRead, nInput, nClose, crashed,
          last>>

\* webrtc::PeerConnectionInterface::IceConnectionState
IceConnectionState ==
  {"new", "checking", "connected", "completed", "failed", "disconnected",
   "closed", "max"}

\* The states an RTCConnection reports (kIceConnectionMax is a sentinel).
EventStates == IceConnectionState \ {"max"}

\* Results of URLParts::Parse on the configured URL: a scheme, or no parse.
Schemes == {"ws", "wss", "http", "invalid"}

ErrorCodes == {"ok", "aborted", "error"}

Msg(json, type, config, sdp, stats) ==
  [json |-> json, type |-> type, config |-> config, sdp |-> sdp, stats |-> stats]

NoMsg == Msg(FALSE, "-", "-", FALSE, "-")

\* Inbound texts: type "none" is JSON without a "type" string.
InMsgs ==
  { Msg(FALSE, "none", "missing", FALSE, "absent"),
    Msg(TRUE, "none", "missing", FALSE, "absent"),
    Msg(TRUE, "offer", "ok", TRUE, "absent"),
    Msg(TRUE, "offer", "missing", TRUE, "absent"),
    Msg(TRUE, "offer", "ok", FALSE, "absent"),
    Msg(TRUE, "update", "missing", TRUE, "absent"),
    Msg(TRUE, "update", "missing", FALSE, "absent"),
    Msg(TRUE, "notify", "missing", FALSE, "absent"),
    Msg(TRUE, "ping", "missing", FALSE, "absent"),
    Msg(TRUE, "ping", "missing", FALSE, "true"),
    Msg(TRUE, "ping", "missing", FALSE, "false"),
    Msg(TRUE, "foo", "missing", FALSE, "absent") }

OutMsg(type, stats) == [type |-> type, stats |-> stats]

Step(op, thread, ret, ec, msg, arg) ==
  [op |-> op, thread |-> thread, ret |-> ret, ec |-> ec, msg |-> msg, arg |-> arg]

Init ==
  /\ config_ \in [scheme : Schemes]
  /\ on_notify_ \in BOOLEAN
  /\ connected_ = FALSE
  /\ rtc_state_ = "new"
  /\ connection_ = 0
  /\ ws_ = 0
  /\ opens = 0
  /\ reads = 0
  /\ closes = 0
  /\ setOffers = {}
  /\ createAnswers = {}
  /\ statsReqs = {}
  /\ posted = {}
  /\ nextSeq = 0
  /\ lastRaised = "new"
  /\ out = <<>>
  /\ notifyLog = <<>>
  /\ nConn = 0
  /\ nRead = 0
  /\ nInput = 0
  /\ nClose = 0
  /\ crashed = FALSE
  /\ last = Step("Create", "app", "true", "ok", NoMsg, "")

\* Accessors.
getRTCConnectionState == rtc_state_

getRTCConnection_Completed ==
  IF rtc_state_ \in {"connected", "completed"} THEN connection_ ELSE 0

getRTCConnection == IF rtc_state_ = "connected" THEN connection_ ELSE 0

\* ws_->WriteText(text)
WriteText(m) == out' = Append(out, m)

\* ws_->Read(bind(&SoraSignaling::OnRead, ...)): one more pending read.
\* DoRead(n) is used inside handlers, n being the pending reads left.
DoRead(n) == reads' = n + 1

\* The initial message; only its type matters to what follows.
DoSendConnect == WriteText(OutMsg("connect", FALSE))

DoSendPong_Stats == WriteText(OutMsg("pong", TRUE))

\* DoSendPong(): {"type":"pong"}
DoSendPong == WriteText(OutMsg("pong", FALSE))

\* DoSendPong(report): {"type":"pong","stats":<report>}
DoSendPongStats == WriteText(OutMsg("pong", TRUE))

\* connection_ = manager_->createConnection(rtc_config, this): always a new
\* RTCConnection, whatever connection_ held before.
CreatePeerFromConfig ==
  /\ connection_' = nConn + 1
  /\ nConn' = nConn + 1

\* Connect() past the connected_ test: parse the URL, construct the Websocket
\* by scheme, start the asynchronous open.
ConnectOpen ==
  IF config_.scheme \in {"ws", "wss"}
    THEN /\ ws_' = ws_ + 1
         /\ opens' = opens + 1
         /\ nInput' = nInput + 1
         /\ last' = Step("Connect", "app", "true", "ok", NoMsg, "")
    ELSE /\ UNCHANGED <<ws_, opens, nInput>>
         /\ last' = Step("Connect", "app", "false", "ok", NoMsg, "")

Connect_NoGuard ==
  /\ ~crashed
  /\ config_.scheme \in {"ws", "wss"} => nInput < MaxInput
  /\ ConnectOpen
  /\ UNCHANGED <<config_, on_notify_, connected_, rtc_state_, connection_,
                 reads, closes, setOffers, createAnswers, statsReqs, posted,
                 nextSeq, lastRaised, out, notifyLog, nConn, nRead, nClose, crashed>>

Connect ==
  /\ ~crashed
  /\ (~connected_ /\ config_.scheme \in {"ws", "wss"}) => nInput < MaxInput
  /\ IF connected_
       THEN /\ UNCHANGED <<ws_, opens, nInput>>
            /\ last' = Step("Connect", "app", "false", "ok", NoMsg, "")
       ELSE ConnectOpen
  /\ UNCHANGED <<config_, on_notify_, connected_, rtc_state_, connection_,
                 reads, closes, setOffers, createAnswers, statsReqs, posted,
                 nextSeq, lastRaised, out, notifyLog, nConn, nRead, nClose, crashed>>

OnConnect_FlagBeforeCheck ==
  /\ ~crashed
  /\ opens > 0
  /\ opens' = opens - 1
  /\ connected_' = TRUE
  /\ \E ec \in {"ok", "error"} :
       /\ last' = Step("OnConnect", "ioc", "void", ec, NoMsg, "")
       /\ IF ec # "ok"
            THEN UNCHANGED <<reads, out>>
            ELSE /\ DoRead(reads)
                 /\ DoSendConnect
  /\ UNCHANGED <<config_, on_notify_, rtc_state_, connection_, ws_, closes,
                 setOffers, createAnswers, statsReqs, posted, nextSeq, lastRaised,
                 notifyLog, nConn, nRead, nInput, nClose, crashed>>

\* Completion of ws_->Connect.
OnConnect ==
  /\ ~crashed
  /\ opens > 0
  /\ opens' = opens - 1
  /\ \E ec \in {"ok", "error"} :
       /\ last' = Step("OnConnect", "ioc", "void", ec, NoMsg, "")
       /\ IF ec # "ok"
            THEN UNCHANGED <<connected_, reads, out>>
            ELSE /\ connected_' = TRUE
                 /\ DoRead(reads)
                 /\ DoSendConnect
  /\ UNCHANGED <<config_, on_notify_, rtc_state_, connection_, ws_, closes,
                 setOffers, createAnswers, statsReqs, posted, nextSeq, lastRaised,
                 notifyLog, nConn, nRead, nInput, nClose, crashed>>

\* Close(): ws_->Close(...); ws_ is null until the first accepted Connect().
Close ==
  /\ ~crashed
  /\ nInput < MaxInput
  /\ nInput' = nInput + 1
  /\ nClose' = nClose + 1
  /\ IF ws_ = 0
       THEN /\ crashed' = TRUE
            /\ closes' = closes
            /\ last' = Step("Close", "app", "crash", "ok", NoMsg, "")
       ELSE /\ crashed' = crashed
            /\ closes' = closes + 1
            /\ last' = Step("Close", "app", "void", "ok", NoMsg, "")
  /\ UNCHANGED <<config_, on_notify_, connected_, rtc_state_, connection_, ws_,
                 opens, reads, setOffers, createAnswers, statsReqs, posted,
                 nextSeq, lastRaised, out, notifyLog, nConn, nRead>>

OnClose_ClearsFlag ==
  /\ ~crashed
  /\ closes > 0
  /\ closes' = closes - 1
  /\ connected_' = FALSE
  /\ \E ec \in {"ok", "error"} :
       last' = Step("OnClose", "ioc", "void", ec, NoMsg, "")
  /\ UNCHANGED <<config_, on_notify_, rtc_state_, connection_, ws_,
                 opens, reads, setOffers, createAnswers, statsReqs, posted,
                 nextSeq, lastRaised, out, notifyLog, nConn, nRead, nInput, nClose, crashed>>

\* Completion of ws_->Close: logs on error, nothing else.
OnClose ==
  /\ ~crashed
  /\ closes > 0
  /\ closes' = closes - 1
  /\ \E ec \in {"ok", "error"} :
       last' = Step("OnClose", "ioc", "void", ec, NoMsg, "")
  /\ UNCHANGED <<config_, on_notify_, connected_, rtc_state_, connection_, ws_,
                 opens, reads, setOffers, createAnswers, statsReqs, posted,
                 nextSeq, lastRaised, out, notifyLog, nConn, nRead, nInput, nClose, crashed>>

Release_ResetsState ==
  /\ ~crashed
  /\ connection_' = 0
  /\ rtc_state_' = IF connection_ = 0 THEN rtc_state_ ELSE "closed"
  /\ last' = Step("Release", "app", "void", "ok", NoMsg, "")
  /\ UNCHANGED <<config_, on_notify_, connected_, ws_, opens, reads, closes,
                 setOffers, createAnswers, statsReqs, posted, nextSeq,
                 lastRaised, out, notifyLog, nConn, nRead, nInput, nClose,
                 crashed>>

\* Release(): connection_ is moved out and dropped.
Release ==
  /\ ~crashed
  /\ connection_' = 0
  /\ last' = Step("Release", "app", "void", "ok", NoMsg, "")
  /\ UNCHANGED <<config_, on_notify_, connected_, rtc_state_, ws_, opens,
                 reads, closes, setOffers, createAnswers, statsReqs, posted,
                 nextSeq, lastRaised, out, notifyLog, nConn, nRead, nInput, nClose, crashed>>

\* What handling a read leaves behind in `last`.
Ret(m, r) == last' = Step("OnRead", "ioc", r, "ok", m, "")

\* An exception of boost::json (parse, at, as_string) leaves the handler at
\* the throwing line: the trailing DoRead() is not reached.  Whether the
\* caller of io_context::run() catches it is not decided by this file.
Throws(m) ==
  /\ crashed' \in BOOLEAN
  /\ reads' = reads - 1
  /\ Ret(m, "throw")

\* A call through a null shared_ptr (connection_->...) ends the process.
NullDeref(m) ==
  /\ crashed' = TRUE
  /\ reads' = reads - 1
  /\ Ret(m, "crash")

\* type == "offer" (lines 247-259)
OnReadOffer(m) ==
  IF m.config # "ok"
    THEN /\ Throws(m)
         /\ UNCHANGED <<connection_, nConn, setOffers, statsReqs, out, notifyLog>>
    ELSE /\ CreatePeerFromConfig
         /\ IF ~m.sdp
              THEN /\ Throws(m)
                   /\ UNCHANGED setOffers
              ELSE /\ setOffers' = setOffers \cup
                        {[msg |-> nRead + 1, kind |-> "offer", conn |-> nConn + 1]}
                   /\ DoRead(reads - 1)
                   /\ crashed' = crashed
                   /\ Ret(m, "void")
         /\ UNCHANGED <<statsReqs, out, notifyLog>>

\* type == "update" (lines 260-271)
OnReadUpdate(m) ==
  /\ IF ~m.sdp
       THEN /\ Throws(m)
            /\ UNCHANGED setOffers
       ELSE IF connection_ = 0
         THEN /\ NullDeref(m)
              /\ UNCHANGED setOffers
         ELSE /\ setOffers' = setOffers \cup
                   {[msg |-> nRead + 1, kind |-> "update", conn |-> connection_]}
              /\ DoRead(reads - 1)
              /\ crashed' = crashed
              /\ Ret(m, "void")
  /\ UNCHANGED <<connection_, nConn, statsReqs, out, notifyLog>>

OnReadNotify_Unchecked(m) ==
  /\ IF on_notify_
       THEN /\ notifyLog' = Append(notifyLog, m)
            /\ DoRead(reads - 1)
            /\ crashed' = crashed
            /\ Ret(m, "void")
       ELSE /\ Throws(m)
            /\ UNCHANGED notifyLog
  /\ UNCHANGED <<connection_, nConn, setOffers, statsReqs, out>>

\* type == "notify" (lines 272-275)
OnReadNotify(m) ==
  /\ IF on_notify_
       THEN notifyLog' = Append(notifyLog, m)
       ELSE UNCHANGED notifyLog
  /\ DoRead(reads - 1)
  /\ crashed' = crashed
  /\ Ret(m, "void")
  /\ UNCHANGED <<connection_, nConn, setOffers, statsReqs, out>>

OnReadPing_NoReturn(m) ==
  /\ IF m.stats = "true" /\ rtc_state_ = "connected"
       THEN IF connection_ = 0
              THEN /\ NullDeref(m)
                   /\ UNCHANGED <<statsReqs, out>>
              ELSE /\ statsReqs' = statsReqs \cup
                        {[msg |-> nRead + 1, conn |-> connection_]}
                   /\ DoRead(reads - 1)
                   /\ crashed' = crashed
                   /\ Ret(m, "void")
                   /\ UNCHANGED out
       ELSE /\ DoSendPong
            /\ DoRead(IF rtc_state_ # "connected" THEN reads ELSE reads - 1)
            /\ crashed' = crashed
            /\ Ret(m, "void")
            /\ UNCHANGED statsReqs
  /\ UNCHANGED <<connection_, nConn, setOffers, notifyLog>>

\* type == "ping" (lines 276-292)
OnReadPing(m) ==
  /\ IF rtc_state_ # "connected"
       THEN /\ DoRead(reads - 1)
            /\ crashed' = crashed
            /\ Ret(m, "void")
            /\ UNCHANGED <<statsReqs, out>>
       ELSE IF m.stats = "true"
         THEN IF connection_ = 0
                THEN /\ NullDeref(m)
                     /\ UNCHANGED <<statsReqs, out>>
                ELSE /\ statsReqs' = statsReqs \cup
                          {[msg |-> nRead + 1, conn |-> connection_]}
                     /\ DoRead(reads - 1)
                     /\ crashed' = crashed
                     /\ Ret(m, "void")
                     /\ UNCHANGED out
         ELSE /\ DoSendPong
              /\ DoRead(reads - 1)
              /\ crashed' = crashed
              /\ Ret(m, "void")
              /\ UNCHANGED statsReqs
  /\ UNCHANGED <<connection_, nConn, setOffers, notifyLog>>

\* Any other type: no branch is taken, the next read is issued.
OnReadOther(m) ==
  /\ DoRead(reads - 1)
  /\ crashed' = crashed
  /\ Ret(m, "void")
  /\ UNCHANGED <<connection_, nConn, setOffers, statsReqs, out, notifyLog>>

\* Lines 245-294: parse, read "type", dispatch.
Dispatch(m) ==
  IF ~m.json \/ m.type = "none"
    THEN /\ Throws(m)
         /\ UNCHANGED <<connection_, nConn, setOffers, statsReqs, out, notifyLog>>
    ELSE CASE m.type = "offer" -> OnReadOffer(m)
           [] m.type = "update" -> OnReadUpdate(m)
           [] m.type = "notify" -> OnReadNotify(m)
           [] m.type = "ping" -> OnReadPing(m)
           [] OTHER -> OnReadOther(m)

\* Completion of ws_->Read.  operation_aborted is what a read ends with once
\* the Websocket is being closed.
OnRead ==
  /\ ~crashed
  /\ reads > 0
  /\ nInput < MaxInput
  /\ nInput' = nInput + 1
  /\ nRead' = nRead + 1
  /\ \E ec \in ErrorCodes :
       /\ ec = "aborted" => nClose > 0
       /\ IF ec # "ok"
            THEN /\ reads' = reads - 1
                 /\ last' = Step("OnRead", "ioc", "void", ec, NoMsg, "")
                 /\ UNCHANGED <<connection_, nConn, setOffers, statsReqs, out,
                                notifyLog, crashed>>
            ELSE \E m \in InMsgs : Dispatch(m)
  /\ UNCHANGED <<config_, on_notify_, connected_, rtc_state_, ws_, opens,
                 closes, createAnswers, posted, nextSeq, lastRaised, nClose>>

\* SetOffer reports success: the continuation (lines 250-259, 262-271) asks
\* the connection_ of that moment for an answer.
OnSetOffer ==
  /\ ~crashed
  /\ \E r \in setOffers :
       /\ setOffers' = setOffers \ {r}
       /\ IF connection_ = 0
            THEN /\ crashed' = TRUE
                 /\ UNCHANGED createAnswers
                 /\ last' = Step("OnSetOffer", "conn", "crash", "ok", NoMsg, r.kind)
            ELSE /\ crashed' = crashed
                 /\ createAnswers' = createAnswers \cup
                      {[msg |-> r.msg, kind |-> r.kind, conn |-> connection_]}
                 /\ last' = Step("OnSetOffer", "conn", "void", "ok", NoMsg, r.kind)
  /\ UNCHANGED <<config_, on_notify_, connected_, rtc_state_, connection_, ws_,
                 opens, reads, closes, statsReqs, posted, nextSeq, lastRaised, out, notifyLog, nConn, nRead, nInput,
                 nClose>>

\* CreateAnswer reports the description: it is serialized and written, as
\* "answer" in the offer chain and as "update" in the update chain.
OnCreateAnswer ==
  /\ ~crashed
  /\ \E r \in createAnswers :
       /\ createAnswers' = createAnswers \ {r}
       /\ WriteText(OutMsg(IF r.kind = "offer" THEN "answer" ELSE "update", FALSE))
       /\ last' = Step("OnCreateAnswer", "conn", "void", "ok", NoMsg, r.kind)
  /\ UNCHANGED <<config_, on_notify_, connected_, rtc_state_, connection_, ws_,
                 opens, reads, closes, setOffers, statsReqs, posted, nextSeq, lastRaised,
                 notifyLog, nConn, nRead, nInput, nClose, crashed>>

\* GetStats reports: DoSendPong(report).
OnGetStats ==
  /\ ~crashed
  /\ \E r \in statsReqs :
       /\ statsReqs' = statsReqs \ {r}
       /\ DoSendPongStats
       /\ last' = Step("OnGetStats", "conn", "void", "ok", NoMsg, "")
  /\ UNCHANGED <<config_, on_notify_, connected_, rtc_state_, connection_, ws_,
                 opens, reads, closes, setOffers, createAnswers, posted,
                 nextSeq, lastRaised, notifyLog, nConn, nRead, nInput, nClose, crashed>>

\* Observer callback: wraps DoIceConnectionStateChange(new_state) in a task
\* and submits it with boost::asio::post; touches no member.
OnIceConnectionStateChange ==
  /\ ~crashed
  /\ nConn > 0
  /\ nInput < MaxInput
  /\ nInput' = nInput + 1
  /\ \E new_state \in EventStates :
       /\ posted' = posted \cup {[seq |-> nextSeq + 1, state |-> new_state]}
       /\ lastRaised' = new_state
       /\ last' = Step("OnIceConnectionStateChange", "webrtc", "void", "ok",
                       NoMsg, new_state)
  /\ nextSeq' = nextSeq + 1
  /\ UNCHANGED <<config_, on_notify_, connected_, rtc_state_, connection_, ws_,
                 opens, reads, closes, setOffers, createAnswers, statsReqs,
                 out, notifyLog, nConn, nRead, nClose,
                 crashed>>

\* Observer callback: writes the candidate message itself.
OnIceCandidate ==
  /\ ~crashed
  /\ nConn > 0
  /\ nInput < MaxInput
  /\ nInput' = nInput + 1
  /\ WriteText(OutMsg("candidate", FALSE))
  /\ last' = Step("OnIceCandidate", "webrtc", "void", "ok", NoMsg, "")
  /\ UNCHANGED <<config_, on_notify_, connected_, rtc_state_, connection_, ws_,
                 opens, reads, closes, setOffers, createAnswers, statsReqs,
                 posted, nextSeq, lastRaised, notifyLog, nConn, nRead, nClose, crashed>>

DoIceConnectionStateChange_Teardown ==
  /\ ~crashed
  /\ \E t \in posted :
       /\ posted' = posted \ {t}
       /\ rtc_state_' = t.state
       /\ connected_' = IF t.state = "failed" THEN FALSE ELSE connected_
       /\ last' = Step("DoIceConnectionStateChange", "sys", "void", "ok",
                       NoMsg, t.state)
  /\ UNCHANGED <<config_, on_notify_, connection_, ws_, opens, reads, closes,
                 setOffers, createAnswers, statsReqs, nextSeq, lastRaised, out, notifyLog,
                 nConn, nRead, nInput, nClose, crashed>>

\* A posted task runs: any of the tasks waiting in the pool.
DoIceConnectionStateChange ==
  /\ ~crashed
  /\ \E t \in posted :
       /\ posted' = posted \ {t}
       /\ rtc_state_' = t.state
       /\ last' = Step("DoIceConnectionStateChange", "sys", "void", "ok",
                       NoMsg, t.state)
  /\ UNCHANGED <<config_, on_notify_, connected_, connection_, ws_, opens,
                 reads, closes, setOffers, createAnswers, statsReqs, nextSeq, lastRaised,
                 out, notifyLog, nConn, nRead, nInput, nClose, crashed>>

Next ==
  \/ Connect
  \/ OnConnect
  \/ Close
  \/ OnClose
  \/ Release
  \/ OnRead
  \/ OnSetOffer
  \/ OnCreateAnswer
  \/ OnGetStats
  \/ OnIceConnectionStateChange
  \/ OnIceCandidate
  \/ DoIceConnectionStateChange

Spec == Init /\ [][Next]_vars

(***************************************************************************)
(* Properties.                                                             *)
(***************************************************************************)

\* A read completed without error and this message was dispatched.
Handled(type) ==
  /\ last'.op = "OnRead"
  /\ last'.ec = "ok"
  /\ last'.msg.json
  /\ last'.msg.type = type

\* C1: Connect() on a client whose connected flag is set returns false and
\* changes nothing: no Websocket is constructed, no open is started, nothing
\* is written, and the flag, the connectivity state and the Connection
\* reference stay as they were.
C1_ConnectWhenConnected ==
  [][(connected_ /\ last'.op = "Connect") =>
       /\ last'.ret = "false"
       /\ UNCHANGED <<connected_, rtc_state_, connection_, ws_, opens, reads,
                      closes, out, setOffers, createAnswers, statsReqs,
                      posted, notifyLog, nConn, crashed>>]_vars

C1_Witness ==
  /\ connected_
  /\ last.op = "Connect"
  /\ last.ret = "false"
  /\ ws_ = 1

\* C2: once every posted task has run, the connectivity state is the state
\* of the last event raised (which is what applying the events in the order
\* they were raised, none dropped, comes to).
C2_LastEventWins ==
  (nextSeq > 0 /\ posted = {}) => rtc_state_ = lastRaised

\* C3 as stated: the accessor returns a Connection exactly when the
\* connectivity state is Connected.
C3_Original == (getRTCConnection # 0) <=> (rtc_state_ = "connected")

\* C3 amended: the accessor returns a Connection exactly when the state is
\* Connected and the client still holds its reference; it returns none in
\* every other state, Completed included; a client in state Connected
\* lacks the reference only because Release() dropped it.
C3_Amended ==
  /\ [](getRTCConnection # 0 <=> (rtc_state_ = "connected" /\ connection_ # 0))
  /\ [](rtc_state_ = "completed" => getRTCConnection = 0)
  /\ [](rtc_state_ # "new" => nConn > 0)
  /\ [][(connection_ # 0 /\ connection_' = 0) => last'.op = "Release"]_vars

C3_Witness ==
  /\ rtc_state_ = "connected"
  /\ getRTCConnection # 0
  /\ getRTCConnection = connection_

\* C4: a ping asking for statistics writes nothing and asks the Connection
\* for nothing while the state is not Connected; while it is Connected the
\* client asks the Connection for statistics, and the report is answered
\* with exactly one pong that carries it.
C4_StatsPing ==
  [][/\ (Handled("ping") /\ last'.msg.stats = "true") =>
          IF rtc_state_ # "connected"
            THEN out' = out /\ statsReqs' = statsReqs
            ELSE /\ ~crashed'
                 /\ out' = out
                 /\ Cardinality(statsReqs') = Cardinality(statsReqs) + 1
     /\ last'.op = "OnGetStats" => out' = Append(out, OutMsg("pong", TRUE))]_vars

\* C5: a ping without a statistics request, handled in state Connected,
\* writes exactly one pong without statistics in that step and does not
\* call into the Connection.
C5_BarePing ==
  [][(Handled("ping") /\ last'.msg.stats \in {"absent", "false"}
        /\ rtc_state_ = "connected") =>
       /\ out' = Append(out, OutMsg("pong", FALSE))
       /\ UNCHANGED <<statsReqs, setOffers, createAnswers, connection_, nConn>>
       /\ reads' = reads
       /\ ~crashed']_vars

C5_Witness ==
  /\ last.op = "OnRead"
  /\ last.msg.type = "ping"
  /\ last.msg.stats = "absent"
  /\ rtc_state_ = "connected"
  /\ Len(out) > 0
  /\ out[Len(out)] = OutMsg("pong", FALSE)

\* C6: an offer constructs the Connection and hands it the description; the
\* report that it was applied asks for an answer; the report of the answer
\* writes exactly one answer message; an answer is written by no other step.
C6_OfferAnswer ==
  [][/\ (Handled("offer") /\ last'.msg.config = "ok" /\ last'.msg.sdp) =>
          /\ nConn' = nConn + 1
          /\ connection_' = nConn'
          /\ \E r \in setOffers' \ setOffers :
               r.kind = "offer" /\ r.conn = connection_'
          /\ out' = out
     /\ (last'.op = "OnSetOffer" /\ last'.arg = "offer") =>
          /\ ~crashed'
          /\ out' = out
          /\ \E r \in createAnswers' \ createAnswers : r.kind = "offer"
     /\ (last'.op = "OnCreateAnswer" /\ last'.arg = "offer") =>
          out' = Append(out, OutMsg("answer", FALSE))
     /\ (out' # out /\ out'[Len(out')].type = "answer") =>
          last'.op = "OnCreateAnswer"]_vars

\* C7: once the Connection reference is set, handling an inbound message
\* never replaces it, and no second Connection is created.
C7_SingleConnection ==
  [][(connection_ # 0 /\ last'.op = "OnRead") =>
       connection_' = connection_ /\ nConn' = nConn]_vars

\* C8: a notify message is handed to the registered callback once, as
\* received; nothing is written and neither the connectivity state nor the
\* Connection reference changes; without a callback only the next read is
\* issued.
C8_Notify ==
  [][Handled("notify") =>
       /\ notifyLog' = IF on_notify_ THEN Append(notifyLog, last'.msg)
                                     ELSE notifyLog
       /\ UNCHANGED <<out, rtc_state_, connection_, connected_, nConn,
                      setOffers, createAnswers, statsReqs, posted>>
       /\ reads' = reads
       /\ last'.ret = "void"
       /\ ~crashed']_vars

C8_Witness ==
  /\ last.op = "OnRead"
  /\ last.msg.type = "notify"
  /\ on_notify_
  /\ notifyLog = <<last.msg>>
  /\ out = <<OutMsg("connect", FALSE)>>

\* C9: applying a connectivity-state event sets the state field to the
\* event's state and does nothing else: nothing is written, no read is
\* issued, the connected flag and the Connection reference stay.
C9_StateChangeFrame ==
  [][last'.op = "DoIceConnectionStateChange" =>
       /\ \E t \in posted : posted' = posted \ {t} /\ rtc_state_' = t.state
       /\ UNCHANGED <<out, reads, opens, closes, connected_, connection_, ws_,
                      nConn, setOffers, createAnswers, statsReqs, notifyLog,
                      crashed>>]_vars

C9_Witness ==
  /\ last.op = "DoIceConnectionStateChange"
  /\ rtc_state_ = "failed"
  /\ connected_
  /\ connection_ # 0

\* C10: a step that runs on a thread of the RTCConnection (an observer
\* callback) writes no message and changes neither the connectivity state
\* nor the Connection reference.
C10_CallbacksOnlyPost ==
  [][last'.thread = "webrtc" =>
       UNCHANGED <<out, rtc_state_, connection_>>]_vars

\* C11: in every reachable state at most one read is outstanding on the
\* Websocket.
C11_OneRead == reads <= 1

\* A text that is not JSON, has no "type", or lacks a member its type needs.
Malformed(m) ==
  \/ ~m.json
  \/ m.type = "none"
  \/ (m.type = "offer" /\ (m.config # "ok" \/ ~m.sdp))
  \/ (m.type = "update" /\ ~m.sdp)

\* C12: a malformed inbound message changes nothing, writes nothing, and is
\* followed by the next read.
C12_MalformedSkipped ==
  [][(last'.op = "OnRead" /\ last'.ec = "ok" /\ Malformed(last'.msg)) =>
       /\ UNCHANGED <<rtc_state_, connected_, connection_, nConn, out>>
       /\ reads' = reads
       /\ ~crashed']_vars


\* C13: Release() leaves the client without a Connection reference and
\* changes nothing else; on a client that holds none it changes nothing at
\* all.
C13_Release ==
  [][last'.op = "Release" =>
       /\ connection_' = 0
       /\ connection_ = 0 => connection_' = connection_
       /\ UNCHANGED <<rtc_state_, connected_, ws_, opens, reads, closes,
                      setOffers, createAnswers, statsReqs, posted, out,
                      notifyLog, nConn, crashed>>]_vars

C13_Witness ==
  /\ last.op = "Release"
  /\ connection_ = 0
  /\ nConn > 0
  /\ rtc_state_ = "connected"
  /\ connected_


\* C14: whatever the interleaving of Connect() calls and open completions, at
\* most one "connect" message is ever written, and no other outbound message
\* precedes it.
C14_ConnectOnce ==
  /\ Cardinality({i \in DOMAIN out : out[i].type = "connect"}) <= 1
  /\ \A i \in DOMAIN out : out[i].type = "connect" => i = 1


\* C15: a read that completes with operation_aborted or any other error ends
\* the read loop: the completion dispatches nothing, writes nothing and
\* changes no state, and no read is issued after it.
C15_ReadErrorEndsLoop ==
  [][/\ (last'.op = "OnRead" /\ last'.ec # "ok") =>
          /\ reads' = reads - 1
          /\ UNCHANGED <<rtc_state_, connected_, connection_, nConn, out,
                         setOffers, createAnswers, statsReqs, notifyLog,
                         crashed>>
     /\ (last.op = "OnRead" /\ last.ec # "ok") => reads' <= reads]_vars


\* C16: an open that completes with an error leaves the connected flag as it
\* was (false for a client no open of which has succeeded), issues no read,
\* writes no message and starts no new open; a later Connect() on the client,
\* still not connected, is accepted and starts an open.
C16_OpenError ==
  [][/\ (last'.op = "OnConnect" /\ last'.ec = "error") =>
          /\ UNCHANGED <<connected_, reads, out, ws_, rtc_state_, connection_>>
          /\ opens' = opens - 1
     /\ (last'.op = "Connect" /\ ~connected_
           /\ config_.scheme \in {"ws", "wss"}) =>
          /\ last'.ret = "true"
          /\ ws_' = ws_ + 1
          /\ opens' = opens + 1]_vars

C16_Witness ==
  /\ last.op = "Connect"
  /\ last.ret = "true"
  /\ ws_ = 2
  /\ opens = 1
  /\ ~connected_
  /\ reads = 0
  /\ out = <<>>


\* C17: an update constructs no Connection and leaves the reference as it
\* was; the description is handed to that existing Connection; the report
\* that it was applied asks for an answer; the report of the answer writes
\* exactly one message tagged "update"; no other step writes one.
C17_Update ==
  [][/\ (Handled("update") /\ last'.msg.sdp) =>
          /\ nConn' = nConn
          /\ connection_' = connection_
          /\ ~crashed'
          /\ \E r \in setOffers' \ setOffers :
               r.kind = "update" /\ r.conn = connection_ /\ r.conn # 0
          /\ out' = out
     /\ (last'.op = "OnSetOffer" /\ last'.arg = "update") =>
          /\ ~crashed'
          /\ out' = out
          /\ \E r \in createAnswers' \ createAnswers : r.kind = "update"
     /\ (last'.op = "OnCreateAnswer" /\ last'.arg = "update") =>
          out' = Append(out, OutMsg("update", FALSE))
     /\ (out' # out /\ out'[Len(out')].type = "update") =>
          last'.op = "OnCreateAnswer"]_vars


\* C18: a ping, with or without a statistics request, handled in any state
\* other than Connected issues the next read and does nothing else: no pong,
\* no call into the Connection, no change of state.
C18_PingNotConnected ==
  [][(Handled("ping") /\ rtc_state_ # "connected") =>
       /\ reads' = reads
       /\ ~crashed'
       /\ UNCHANGED <<out, statsReqs, setOffers, createAnswers, connection_,
                      nConn, rtc_state_, connected_, posted, notifyLog, ws_,
                      opens, closes>>]_vars

C18_Witness ==
  /\ last.op = "OnRead"
  /\ last.ec = "ok"
  /\ last.msg.type = "ping"
  /\ last.msg.stats = "true"
  /\ rtc_state_ = "completed"
  /\ reads = 1
  /\ statsReqs = {}
  /\ Len(out) = 1


\* C19: every step that calls into the Connection (SetOffer for an update,
\* GetStats for a statistics ping in state Connected, CreateAnswer in the
\* SetOffer continuation) is taken with the Connection reference set.
C19_ConnectionPresent ==
  [][(\/ Handled("update") /\ last'.msg.sdp
      \/ Handled("ping") /\ last'.msg.stats = "true"
           /\ rtc_state_ = "connected"
      \/ last'.op = "OnSetOffer") =>
       connection_ # 0]_vars


\* C20: once the connected flag is set no step clears it, and every Connect()
\* on a client whose flag is set fails without constructing a Websocket or
\* starting an open.
C20_ConnectedMonotonic ==
  [][/\ connected_ => connected_'
     /\ (connected_ /\ last'.op = "Connect") =>
          /\ last'.ret = "false"
          /\ UNCHANGED <<ws_, opens, reads, out>>]_vars

C20_Witness ==
  /\ connected_
  /\ last.op = "Connect"
  /\ last.ret = "false"
  /\ nClose > 0
  /\ closes = 0
  /\ reads = 0
  /\ opens = 0
  /\ ws_ = 1

====
